---- MODULE Spec2Model ----
(***************************************************************************)
(* Util::CacheLayerBase (src/src/util/cacheLayerBase.cpp): the chain of    *)
(* cache layers.  Every layer has a next-layer pointer, a load policy and  *)
(* a store policy; Query, Store and Load dispatch to the layer's own       *)
(* storage (the Internal methods of the concrete layer) and to the next    *)
(* layer as the policies say.  One action of the model is one complete     *)
(* call of the public interface, with every nested call it makes.          *)
(***************************************************************************)
EXTENDS Integers, Sequences, FiniteSets, TLC

\* ---------------------------------------------------------------- bounds
NumLayers == 2
NumHashes == 1
MaxPolicyCalls == 1
\* The threads that use one FileArchiveCacheLayer, and the queries they make
\* in all.
NumThreads == 2
MaxQueries == 1
\* DbgOverlay::Queue: the timestamp pairs the timestamp memory has room for
\* (scaled down), and the command buffers of a submission.
MaxGpuTimestampPairCount == 2
MaxCmdBuffers == 2
MaxSubQueues == 2

Layers == 1..NumLayers
Hashes == 1..NumHashes
\* The caller's memory: pData is an address in it, NULL the null pointer.
Mem      == << <<7>>, <<7, 9>> >>
DataPtrs == 1..Len(Mem)
Data     == {Mem[p] : p \in DataPtrs}
\* The empty byte string stands for "no data".
NoData   == <<>>
NULL     == 0
\* The address of the caller's load buffer.
BufPtr   == 1

\* ------------------------------------------------------- LinkPolicy flags
Skip        == "Skip"
PassCalls   == "PassCalls"
PassData    == "PassData"
LoadOnQuery == "LoadOnQuery"
BatchStore  == "BatchStore"
LinkPolicy  == {Skip, PassCalls, PassData, LoadOnQuery, BatchStore}

TestAnyFlagSet(policy, flags)  == policy \cap flags # {}
TestAllFlagsSet(policy, flags) == flags \subseteq policy

\* ----------------------------------------------------------------- Result
Success             == "Success"
Unsupported         == "Unsupported"
NotFound            == "NotFound"
ErrorUnknown        == "ErrorUnknown"
ErrorInvalidPointer == "ErrorInvalidPointer"
ErrorInvalidValue   == "ErrorInvalidValue"
ErrorOutOfMemory    == "ErrorOutOfMemory"
ErrorDeviceLost     == "ErrorDeviceLost"
IoError             == "IoError"
\* A call that never returns: the recursion re-entered a layer of a cyclic chain.
NoReturn            == "NoReturn"

IsErrorResult(result) ==
    result \in {ErrorUnknown, ErrorInvalidPointer, ErrorInvalidValue, IoError}

\* ------------------------------------------------------------------ state
VARIABLES
    m_pNextLayer,   \* [Layers -> Layers \cup {NULL}]
    m_loadPolicy,   \* [Layers -> SUBSET LinkPolicy]
    m_storePolicy,  \* [Layers -> SUBSET LinkPolicy]
    m_entries,      \* [Layers -> [Hashes -> Data \cup {NoData}]]: each layer's own storage
    policyCalls,    \* number of SetLoadPolicy/SetStorePolicy calls made
    last            \* the last call of the public interface and what it did

cacheVars == <<m_pNextLayer, m_loadPolicy, m_storePolicy, m_entries, policyCalls, last>>

\* ------------------------------------- state of one FileArchiveCacheLayer
\* (src/src/util/fileArchiveCacheLayer.h), used by several threads.
Threads  == 1..NumThreads
NoThread == 0
\* struct Entry { uint64 ordinalId; size_t dataSize; }
Entry(ordinalId, dataSize) == [ordinalId |-> ordinalId, dataSize |-> dataSize]
NoEntry == Entry(0, 0)
\* The hash thread t stores, the sizes a payload can have, and the EntryKey
\* the hash context derives from a hash.
HashOf(t)   == t
Sizes       == {1, 2}
KeyBase     == 10
ConvertToEntryKey(hashId) == KeyBase + hashId
EntryKeys   == {ConvertToEntryKey(HashOf(t)) : t \in Threads}
NoHash      == 0

VARIABLES
    m_archiveFile,       \* the records of the archive; a record's ordinal is its position
    m_entryMap,          \* EntryMap m_entries: [EntryKeys -> Entry], NoEntry for none
    m_lastOrdinal,       \* the highest ordinal RefreshHeaders has scanned
    m_archiveFileMutex,  \* the thread that holds it, or NoThread
    m_hashContextMutex,  \* the thread that holds it, or NoThread
    m_entryMapLock,      \* [writer |-> thread or NoThread, readers |-> set of threads]
    m_hashContext,       \* the hash the shared hash context has been fed
    thread               \* per thread: position in its call and the call's locals

archiveVars == <<m_archiveFile, m_entryMap, m_lastOrdinal, m_archiveFileMutex,
                 m_hashContextMutex, m_entryMapLock, m_hashContext, thread>>

\* A thread between calls, with the outcome of its Store and of its last Query.
IdleThread ==
    [pc |-> "idle", op |-> "none", hashId |-> NoHash, dataSize |-> 0, key |-> 0,
     ordinalId |-> 0, refreshed |-> FALSE, afterStores |-> FALSE,
     stored |-> "no", storedSize |-> 0, queries |-> 0,
     found |-> "no", foundSize |-> 0]
\* (a thread that returns from a call forgets the call's locals)

ArchiveInit ==
    /\ m_archiveFile = <<>>
    /\ m_entryMap = [k \in EntryKeys |-> NoEntry]
    /\ m_lastOrdinal = 0
    /\ m_archiveFileMutex = NoThread
    /\ m_hashContextMutex = NoThread
    /\ m_entryMapLock = [writer |-> NoThread, readers |-> {}]
    /\ m_hashContext = NoHash
    /\ thread = [t \in Threads |-> IdleThread]

\* --------------------------------------------- state of one DbgOverlay::Queue
\* (src/src/core/layers/dbgOverlay/dbgOverlayQueue.cpp)
\* minTimestampAlignment of the engine, in bytes.
m_timestampAlignment  == 8
m_timestampMemorySize == 2 * MaxGpuTimestampPairCount * m_timestampAlignment
\* The GpuTimestampPair objects the queue can ever create, and no pair.
PairIds == 1..MaxGpuTimestampPairCount
NoPair  == 0

VARIABLES
    m_supportTimestamps,      \* the engine supports timestamps
    m_nextTimestampOffset,    \* offset of the next timestamp in the timestamp memory
    m_gpuTimestampPairDeque,  \* the pairs of the queue, as a sequence of PairIds
    pairs,                    \* per pair: "free", "live" or "destroyed", numActiveSubmissions
    lastSubmit                \* the last Submit call and what it did

queueVars == <<m_supportTimestamps, m_nextTimestampOffset, m_gpuTimestampPairDeque,
               pairs, lastSubmit>>

\* A MultiSubmitInfo without sub-queue information.
NoSubQueueInfo ==
    [hasSubQueue |-> FALSE, perSubQueueInfoCount |-> 0, cmdBufferCount |-> 0,
     lastContainsPresent |-> FALSE, hasCmdBufInfoList |-> FALSE]

\* No submission handed to the next layer.
NoPerSubQueueInfo == <<>>

\* No Submit made yet.
NoSubmit ==
    [op |-> "none", submitInfo |-> NoSubQueueInfo, addTimestamps |-> FALSE, path |-> "none", result |-> Success,
     returned |-> TRUE, failed |-> {}, pushed |-> NoPair, destroyed |-> NoPair,
     assertAtPush |-> "none", assertAtSubmit |-> "none",
     forwarded |-> <<>>, finalSubmitInfo |-> NoPerSubQueueInfo, notified |-> FALSE, timelist |-> NoPair, writes |-> <<>>]

QueueInit ==
    /\ m_supportTimestamps \in BOOLEAN
    /\ m_nextTimestampOffset = 0
    /\ m_gpuTimestampPairDeque = <<>>
    /\ pairs = [p \in PairIds |-> [state |-> "free", numActiveSubmissions |-> 0]]
    /\ lastSubmit = NoSubmit

\* The queue of a process that only uses the cache layers.
QueueIdle == QueueInit /\ m_supportTimestamps

vars == <<cacheVars, archiveVars, queueVars>>

\* A QueryResult: the layer that satisfied the query, the key and the size.
QueryResult(pLayer, hashId, dataSize) ==
    [pLayer |-> pLayer, hashId |-> hashId, dataSize |-> dataSize]
\* The caller's slot before any query wrote to it, and the null pQuery pointer.
NoQuery   == QueryResult(NULL, NULL, 0)
NullQuery == [null |-> TRUE]

\* What a call returns to its caller, with the storage it leaves behind, the
\* QueryResult slot, the bytes written to the caller's buffer and the nested
\* calls it made, in order.
Ret(result, entries, query, buffer, trace) ==
    [result |-> result, entries |-> entries, query |-> query, buffer |-> buffer,
     trace |-> trace]

Ev(f, layer, result) == [f |-> f, l |-> layer, r |-> result]

\* ------------------------------------------- the concrete layer's own storage
\* The outcomes the environment decides during one call: I/O failures of each
\* layer's storage (qi, si per layer; li for the layer that loads), and what the
\* optional PromoteData (pd) and BatchData (bd) do.
QiOutcome == {"ok", IoError}
SiOutcome == {Success, Unsupported, IoError}
LiOutcome == {"ok", IoError}
PdOutcome == {"ok", Unsupported, IoError}
BdOutcome == {Unsupported, Success, IoError}

QueryInternal(this, pHashId, pQuery, entries, env) ==
    IF env.qi[this] # "ok"
    THEN Ret(env.qi[this], entries, pQuery, NoData, <<Ev("QueryInternal", this, env.qi[this])>>)
    ELSE IF entries[this][pHashId] # NoData
    THEN Ret(Success, entries,
             QueryResult(this, pHashId, Len(entries[this][pHashId])), NoData,
             <<Ev("QueryInternal", this, Success)>>)
    ELSE Ret(NotFound, entries, pQuery, NoData, <<Ev("QueryInternal", this, NotFound)>>)

StoreInternal(this, pHashId, pData, dataSize, entries, env) ==
    IF env.si[this] = Success
    THEN Ret(Success,
             [entries EXCEPT ![this][pHashId] = SubSeq(Mem[pData], 1, dataSize)],
             NoQuery, NoData, <<Ev("StoreInternal", this, Success)>>)
    ELSE Ret(env.si[this], entries, NoQuery, NoData,
             <<Ev("StoreInternal", this, env.si[this])>>)

LoadInternal(this, pQuery, entries, env) ==
    IF env.li # "ok"
    THEN Ret(env.li, entries, pQuery, NoData, <<Ev("LoadInternal", this, env.li)>>)
    ELSE IF entries[this][pQuery.hashId] = NoData
    THEN Ret(NotFound, entries, pQuery, NoData, <<Ev("LoadInternal", this, NotFound)>>)
    ELSE Ret(Success, entries, pQuery, entries[this][pQuery.hashId],
             <<Ev("LoadInternal", this, Success)>>)

BatchData(this, pNextLayer, pHashId, pData, dataSize, entries, env) ==
    Ret(env.bd, entries, NoQuery, NoData, <<Ev("BatchData", this, env.bd)>>)

\* ------------------------------------------------------------------- Load
RECURSIVE Load(_, _, _, _, _, _), PromoteData(_, _, _, _, _)

\* Copies the data the QueryResult names from the next layer into this layer
\* and, on success, makes the QueryResult name this layer.
PromoteData(this, pNextLayer, pQuery, entries, env) ==
    IF env.pd # "ok"
    THEN Ret(env.pd, entries, pQuery, NoData, <<Ev("PromoteData", this, env.pd)>>)
    ELSE LET ld == Load(pNextLayer, pQuery, BufPtr, entries, env, {})
         IN  IF ld.result = Success
             THEN Ret(Success,
                      [ld.entries EXCEPT ![this][pQuery.hashId] = ld.buffer],
                      QueryResult(this, pQuery.hashId, Len(ld.buffer)), NoData,
                      <<Ev("PromoteData", this, Success)>> \o ld.trace)
             ELSE Ret(ld.result, ld.entries, pQuery, NoData,
                      <<Ev("PromoteData", this, ld.result)>> \o ld.trace)

LoadIsLocal_Always(this, pQuery) == TRUE

\* pQuery->pLayer == this
LoadIsLocal(this, pQuery) == pQuery.pLayer = this

\* (m_pNextLayer != nullptr) && TestAnyFlagSet(m_loadPolicy, PassCalls)
LoadForwards(this) ==
    (m_pNextLayer[this] # NULL) /\ TestAnyFlagSet(m_loadPolicy[this], {PassCalls})

LoadPromotes_NoLoadOnQueryTest(this, result) ==
    /\ result = Success
    /\ TestAnyFlagSet(m_loadPolicy[this], {PassData})

\* The forwarded load succeeded and promotion was deferred to Load.
LoadPromotes(this, result) ==
    /\ result = Success
    /\ TestAnyFlagSet(m_loadPolicy[this], {PassData})
    /\ TestAnyFlagSet(m_loadPolicy[this], {LoadOnQuery}) = FALSE

LoadArgsInvalid_QueryOnly(pQuery, pBuffer) == pQuery = NullQuery

\* (pQuery == nullptr) || (pBuffer == nullptr)
LoadArgsInvalid(pQuery, pBuffer) == (pQuery = NullQuery) \/ (pBuffer = NULL)

LoadDefaultResult_NotFound == NotFound

\* Result result = Result::ErrorUnknown: what Load returns when it neither
\* loads from this layer nor forwards.
LoadDefaultResult == ErrorUnknown

QueryAfterLoadPromote_Shared(pQuery, tmpQuery) == tmpQuery

\* QueryResult tmpQuery = *pQuery: PromoteData gets the copy tmpQuery, and
\* *pQuery is what it was.
QueryAfterLoadPromote(pQuery, tmpQuery) == pQuery

AfterPromote_PromoteResult(result, promoteResult) == promoteResult

\* The result of a forwarded call that was followed by a promotion: the
\* promotion's result is only alerted on.
AfterPromote(result, promoteResult) ==
    IF promoteResult = NoReturn THEN NoReturn ELSE result

Load(this, pQuery, pBuffer, entries, env, seen) ==
    IF this \in seen
    THEN Ret(NoReturn, entries, pQuery, NoData, <<>>)
    ELSE IF LoadArgsInvalid(pQuery, pBuffer)
    THEN Ret(ErrorInvalidPointer, entries, pQuery, NoData, <<>>)
    ELSE IF LoadIsLocal(this, pQuery)
    THEN LoadInternal(this, pQuery, entries, env)
    ELSE IF LoadForwards(this)
    THEN LET next == m_pNextLayer[this]
             fwd  == Load(next, pQuery, pBuffer, entries, env, seen \cup {this})
             call == <<Ev("Load", next, fwd.result)>> \o fwd.trace
         IN  IF LoadPromotes(this, fwd.result)
             THEN \* the promotion works on a copy of *pQuery
                  LET promote == PromoteData(this, next, pQuery, fwd.entries, env)
                  IN  Ret(AfterPromote(fwd.result, promote.result), promote.entries,
                          QueryAfterLoadPromote(pQuery, promote.query), fwd.buffer,
                          call \o promote.trace)
             ELSE Ret(fwd.result, fwd.entries, pQuery, fwd.buffer, call)
    ELSE Ret(LoadDefaultResult, entries, pQuery, NoData, <<>>)

\* The layer a Query or a Store hands the call to, were it the layer itself.
NextLayer_Self(this) == this

\* m_pNextLayer->Query(...), m_pNextLayer->Store(...): the layer the call is
\* handed to.
NextLayer(this) == m_pNextLayer[this]

\* ------------------------------------------------------------------ Query
QueryArgsInvalid_HashOnly(pHashId, pQuery) == pHashId = NULL

\* (pHashId == nullptr) || (pQuery == nullptr)
QueryArgsInvalid(pHashId, pQuery) == (pHashId = NULL) \/ (pQuery = NullQuery)

QueryDefaultResult_Success == Success

\* Result result = Result::NotFound: the local outcome when Skip is set.
QueryDefaultResult == NotFound

QueryRunsInternal_Inverted(this) == TestAnyFlagSet(m_loadPolicy[this], {Skip})

\* TestAnyFlagSet(m_loadPolicy, Skip) == false
QueryRunsInternal(this) == TestAnyFlagSet(m_loadPolicy[this], {Skip}) = FALSE

QueryForwards_NoPassCalls(this, result) ==
    /\ result = NotFound
    /\ m_pNextLayer[this] # NULL

QueryForwards(this, result) ==
    /\ result = NotFound
    /\ m_pNextLayer[this] # NULL
    /\ TestAnyFlagSet(m_loadPolicy[this], {PassCalls})

QueryPromotes_Deferred(this, result) ==
    /\ result = Success
    /\ TestAnyFlagSet(m_loadPolicy[this], {PassData})
    /\ TestAnyFlagSet(m_loadPolicy[this], {LoadOnQuery}) = FALSE

QueryPromotes(this, result) ==
    /\ result = Success
    /\ TestAllFlagsSet(m_loadPolicy[this], {PassData, LoadOnQuery})

RECURSIVE Query(_, _, _, _, _, _)
Query(this, pHashId, pQuery, entries, env, seen) ==
    IF this \in seen
    THEN Ret(NoReturn, entries, pQuery, NoData, <<>>)
    ELSE IF QueryArgsInvalid(pHashId, pQuery)
    THEN Ret(ErrorInvalidPointer, entries, pQuery, NoData, <<>>)
    ELSE LET own == IF QueryRunsInternal(this)
                    THEN QueryInternal(this, pHashId, pQuery, entries, env)
                    ELSE Ret(QueryDefaultResult, entries, pQuery, NoData, <<>>)
         IN  IF QueryForwards(this, own.result)
             THEN LET next == NextLayer(this)
                      fwd  == Query(next, pHashId, own.query, own.entries, env,
                                    seen \cup {this})
                      call == own.trace \o <<Ev("Query", next, fwd.result)>> \o fwd.trace
                  IN  IF QueryPromotes(this, fwd.result)
                      THEN LET promote == PromoteData(this, next, fwd.query, fwd.entries, env)
                           IN  Ret(AfterPromote(fwd.result, promote.result),
                                   promote.entries, promote.query, NoData,
                                   call \o promote.trace)
                      ELSE Ret(fwd.result, fwd.entries, fwd.query, NoData, call)
             ELSE own

\* ------------------------------------------------------------------ Store
\* (pHashId == nullptr) || (pData == nullptr)
StoreArgsInvalid(pHashId, pData) == (pHashId = NULL) \/ (pData = NULL)

StoreSizeInvalid_Never(dataSize) == FALSE

\* dataSize == 0
StoreSizeInvalid(dataSize) == dataSize = 0

StoreRunsInternal_Always(this) == TRUE

StoreRunsInternal_Inverted(this) == TestAnyFlagSet(m_storePolicy[this], {Skip})

\* TestAnyFlagSet(m_storePolicy, Skip) == false
StoreRunsInternal(this) == TestAnyFlagSet(m_storePolicy[this], {Skip}) = FALSE

StorePropagates_OnError(this, result) ==
    /\ m_pNextLayer[this] # NULL
    /\ TestAnyFlagSet(m_storePolicy[this], {PassData})

\* Pass data to children on success
StorePropagates(this, result) ==
    /\ IsErrorResult(result) = FALSE
    /\ m_pNextLayer[this] # NULL
    /\ TestAnyFlagSet(m_storePolicy[this], {PassData})

StoreBatches(this) == TestAnyFlagSet(m_storePolicy[this], {BatchStore})

AfterChild_ChildResult(result, childResult) == childResult

\* The result of a Store that passed the data on: the child's result is only
\* alerted on.
AfterChild(result, childResult) ==
    IF childResult = NoReturn THEN NoReturn ELSE result

RECURSIVE Store(_, _, _, _, _, _, _)
Store(this, pHashId, pData, dataSize, entries, env, seen) ==
    IF this \in seen
    THEN Ret(NoReturn, entries, NoQuery, NoData, <<>>)
    ELSE IF StoreArgsInvalid(pHashId, pData)
    THEN Ret(ErrorInvalidPointer, entries, NoQuery, NoData, <<>>)
    ELSE IF StoreSizeInvalid(dataSize)
    THEN Ret(ErrorInvalidValue, entries, NoQuery, NoData, <<>>)
    ELSE LET own == IF StoreRunsInternal(this)
                    THEN StoreInternal(this, pHashId, pData, dataSize, entries, env)
                    ELSE Ret(Success, entries, NoQuery, NoData, <<>>)
         IN  IF StorePropagates(this, own.result)
             THEN LET next  == NextLayer(this)
                      batch == IF StoreBatches(this)
                               THEN BatchData(this, next, pHashId, pData, dataSize,
                                              own.entries, env)
                               ELSE Ret(Unsupported, own.entries, NoQuery, NoData, <<>>)
                  IN  IF batch.result = Unsupported
                      THEN LET child == Store(next, pHashId, pData, dataSize,
                                              batch.entries, env, seen \cup {this})
                           IN  Ret(AfterChild(own.result, child.result), child.entries,
                                   NoQuery, NoData,
                                   own.trace \o batch.trace
                                   \o <<Ev("Store", next, child.result)>> \o child.trace)
                      ELSE Ret(own.result, batch.entries, NoQuery, NoData,
                               own.trace \o batch.trace)
             ELSE own

\* ------------------------------------------------- the calls of the interface
NoFaults ==
    [qi |-> [l \in Layers |-> "ok"], si |-> [l \in Layers |-> Success],
     li |-> "ok", pd |-> "ok", bd |-> Unsupported]
\* The layers a call on `this` can reach along the chain.
RECURSIVE Chain(_, _)
Chain(this, seen) ==
    IF (this = NULL) \/ (this \in seen) THEN seen
    ELSE Chain(m_pNextLayer[this], seen \cup {this})

\* What the environment may decide during a call on `this`.  Only the outcomes
\* of calls that can be made are enumerated: the storage of the layers the call
\* can reach, PromoteData and BatchData where a policy of such a layer asks for it.
QueryEnvs(this) ==
    LET reach == Chain(this, {})
    IN  {[NoFaults EXCEPT !.qi = [l \in Layers |-> IF l \in bad THEN IoError ELSE "ok"],
                          !.pd = pd] :
            bad \in SUBSET reach,
            pd \in IF \E l \in reach : LoadOnQuery \in m_loadPolicy[l]
                   THEN PdOutcome ELSE {"ok"}}
StoreEnvs(this) ==
    LET reach == Chain(this, {})
    IN  {[NoFaults EXCEPT !.si = [l \in Layers |-> IF l \in reach THEN si[l] ELSE Success],
                          !.bd = bd] :
            si \in [reach -> SiOutcome],
            bd \in IF \E l \in reach : BatchStore \in m_storePolicy[l]
                   THEN BdOutcome ELSE {Unsupported}}
LoadEnvs(this) ==
    {[NoFaults EXCEPT !.li = li, !.pd = pd] : li \in LiOutcome, pd \in PdOutcome}

Call(op, layer, args, valid, hashId, data, r, after) ==
    [op |-> op, layer |-> layer, args |-> args, valid |-> valid, hashId |-> hashId,
     data |-> data,
     result |-> r.result, query |-> r.query, buffer |-> r.buffer, trace |-> r.trace,
     changed |-> {l \in Layers : r.entries[l] # m_entries[l]}, after |-> after]

NoArgs == [none |-> TRUE]

NoCall ==
    [op |-> "none", layer |-> NULL, args |-> NoArgs, valid |-> TRUE, hashId |-> NULL, data |-> NoData,
     result |-> Success, query |-> NoQuery, buffer |-> NoData, trace |-> <<>>,
     changed |-> {}, after |-> NoData]

\* The process is alive: no call has run into unbounded recursion.
Alive == last.result # NoReturn

\* The QueryResult the caller holds: the one its last Query filled in.
Held == IF last.op \in {"Query", "Load"} THEN last.query ELSE NoQuery

CacheInit ==
    /\ m_pNextLayer  = [l \in Layers |-> NULL]
    /\ m_loadPolicy  = [l \in Layers |-> {PassData, PassCalls}]
    /\ m_storePolicy = [l \in Layers |-> {PassData}]
    /\ m_entries     = [l \in Layers |-> [h \in Hashes |-> NoData]]
    /\ policyCalls   = 0
    /\ last          = NoCall

Init ==
    /\ CacheInit
    /\ ArchiveInit
    /\ QueueIdle

\* A call that never returns ends the process: nothing after it is observed.
Finish(r, call) ==
    /\ Alive
    /\ last' = call
    /\ m_entries' = IF r.result = NoReturn THEN m_entries ELSE r.entries
    /\ UNCHANGED <<m_pNextLayer, m_loadPolicy, m_storePolicy, policyCalls>>
    /\ UNCHANGED <<archiveVars, queueVars>>

CallQuery(this, pHashId, pQuery, env) ==
    \E r \in {Query(this, pHashId, pQuery, m_entries, env, {})} :
    LET \* the data of the Store that came right before on this layer and hash
        after == IF last.op = "Store" /\ last.result = Success /\ last.layer = this
                    /\ last.hashId = pHashId /\ pQuery # NullQuery
                 THEN last.data ELSE NoData
    IN  Finish(r, Call("Query", this,
                       [pHashId |-> pHashId, pQueryIsNull |-> (pQuery = NullQuery)],
                       (pHashId # NULL) /\ (pQuery # NullQuery), pHashId, NoData,
                       [r EXCEPT !.query = IF pQuery = NullQuery THEN NoQuery ELSE @],
                       after))

CallStore(this, pHashId, pData, dataSize, env) ==
    \E r \in {Store(this, pHashId, pData, dataSize, m_entries, env, {})} :
    LET data == IF pData = NULL THEN NoData ELSE SubSeq(Mem[pData], 1, dataSize)
    IN  Finish(r, Call("Store", this,
                       [pHashId |-> pHashId, pData |-> pData, dataSize |-> dataSize],
                       (pHashId # NULL) /\ (pData # NULL) /\ (dataSize # 0),
                       pHashId, data, r, NoData))

CallLoad(this, pQuery, pBuffer, env) ==
    \E r \in {Load(this, pQuery, pBuffer, m_entries, env, {})} :
    LET \* the data of a Store, Query sequence that came right before on this layer
        after == IF last.op = "Query" /\ last.result = Success /\ last.layer = this
                    /\ pQuery # NullQuery /\ pBuffer # NULL
                 THEN last.after ELSE NoData
    IN  Finish(r, Call("Load", this, [pQuery |-> pQuery, pBuffer |-> pBuffer],
                       (pQuery # NullQuery) /\ (pBuffer # NULL),
                       IF pQuery = NullQuery THEN NULL ELSE pQuery.hashId, NoData,
                       \* the caller's QueryResult after the call
                       [r EXCEPT !.query = IF pQuery = NullQuery THEN Held ELSE @],
                       after))

Link(this, pNextLayer) ==
    /\ Alive
    /\ m_pNextLayer' = [m_pNextLayer EXCEPT ![this] = pNextLayer]
    /\ last' = [NoCall EXCEPT !.op = "Link", !.layer = this,
                              !.args = [pNextLayer |-> pNextLayer]]
    /\ UNCHANGED <<m_loadPolicy, m_storePolicy, m_entries, policyCalls>>
    /\ UNCHANGED <<archiveVars, queueVars>>

SetLoadPolicyResult_Accepts(loadPolicy) == Success

\* (loadPolicy & LinkPolicy::BatchStore) != 0u
SetLoadPolicyResult(loadPolicy) ==
    IF loadPolicy \cap {BatchStore} # {} THEN ErrorInvalidValue ELSE Success

SetLoadPolicy(this, loadPolicy) ==
    LET result == SetLoadPolicyResult(loadPolicy)
    IN  /\ Alive
        /\ policyCalls < MaxPolicyCalls
        /\ policyCalls' = policyCalls + 1
        /\ m_loadPolicy' = IF result = Success
                           THEN [m_loadPolicy EXCEPT ![this] = loadPolicy]
                           ELSE m_loadPolicy
        /\ last' = [NoCall EXCEPT !.op = "SetLoadPolicy", !.layer = this,
                                  !.args = [loadPolicy |-> loadPolicy],
                                  !.result = result]
        /\ UNCHANGED <<m_pNextLayer, m_storePolicy, m_entries>>
        /\ UNCHANGED <<archiveVars, queueVars>>

\* The same, accepting every store policy.
SetStorePolicyResult_Accepts(storePolicy) == Success

\* (storePolicy & LinkPolicy::LoadOnQuery) != 0u
SetStorePolicyResult(storePolicy) ==
    IF storePolicy \cap {LoadOnQuery} # {} THEN ErrorInvalidValue ELSE Success

SetStorePolicy(this, storePolicy) ==
    LET result == SetStorePolicyResult(storePolicy)
    IN  /\ Alive
        /\ policyCalls < MaxPolicyCalls
        /\ policyCalls' = policyCalls + 1
        /\ m_storePolicy' = IF result = Success
                            THEN [m_storePolicy EXCEPT ![this] = storePolicy]
                            ELSE m_storePolicy
        /\ last' = [NoCall EXCEPT !.op = "SetStorePolicy", !.layer = this,
                                  !.args = [storePolicy |-> storePolicy],
                                  !.result = result]
        /\ UNCHANGED <<m_pNextLayer, m_loadPolicy, m_entries>>
        /\ UNCHANGED <<archiveVars, queueVars>>

\* Calls with valid arguments, under every outcome the environment may choose.
ValidCall ==
    \/ \E this \in Layers, pHashId \in Hashes : \E env \in QueryEnvs(this) :
          CallQuery(this, pHashId, Held, env)
    \/ \E this \in Layers, pHashId \in Hashes, pData \in DataPtrs :
          \E env \in StoreEnvs(this) :
              CallStore(this, pHashId, pData, Len(Mem[pData]), env)
    \/ \E this \in Layers : \E env \in LoadEnvs(this) :
          CallLoad(this, Held, BufPtr, env)

\* Calls with one absent pointer or a zero size.
InvalidCall ==
    \/ \E this \in Layers, pHashId \in Hashes :
          \/ CallQuery(this, NULL, Held, NoFaults)
          \/ CallQuery(this, pHashId, NullQuery, NoFaults)
    \/ \E this \in Layers, pHashId \in Hashes, pData \in DataPtrs :
          \/ CallStore(this, NULL, pData, Len(Mem[pData]), NoFaults)
          \/ CallStore(this, pHashId, NULL, 1, NoFaults)
          \/ CallStore(this, pHashId, pData, 0, NoFaults)
    \/ \E this \in Layers :
          \/ CallLoad(this, NullQuery, BufPtr, NoFaults)
          \/ CallLoad(this, Held, NULL, NoFaults)

\* The chains the callers build: a layer is linked to a later layer, or unlinked.
LinkTargets(this) == {NULL} \cup {l \in Layers : l > this}

Configure ==
    \/ \E this \in Layers : \E pNextLayer \in LinkTargets(this) : Link(this, pNextLayer)
    \/ \E this \in Layers, loadPolicy \in SUBSET LinkPolicy : SetLoadPolicy(this, loadPolicy)
    \/ \E this \in Layers, storePolicy \in SUBSET LinkPolicy : SetStorePolicy(this, storePolicy)

Next == ValidCall \/ InvalidCall \/ Configure

Spec == Init /\ [][Next]_vars

\* ================================================================ the claims
\* The nested calls of the last call: the positions in its trace of the calls
\* of f on layer l, whether there is one, and the result of the first.
Events(f, l) == {i \in DOMAIN last.trace : last.trace[i].f = f /\ last.trace[i].l = l}
Made(f, l)   == Events(f, l) # {}
ResultOf(f, l) ==
    last.trace[CHOOSE i \in Events(f, l) : \A j \in Events(f, l) : i <= j].r
\* No storage of any layer failed with an I/O error during the last call.
NoIoError == \A i \in DOMAIN last.trace : last.trace[i].r # IoError
\* The layer the last call was made on, its next layer and its policies.
This        == last.layer
NextOfThis  == m_pNextLayer[last.layer]
LoadPolicy  == m_loadPolicy[last.layer]
StorePolicy == m_storePolicy[last.layer]

\* ---- C1
\* C1 as stated: after Store(h, d, size) returned Success on a layer, the Query(h)
\* that follows on that layer succeeds, and the Load that follows with its
\* QueryResult returns d, of length size (no storage failing with an I/O error).
C1_StoreQueryLoad_AnyPolicy ==
    /\ (last.op = "Query" /\ last.after # NoData /\ NoIoError) => last.result = Success
    /\ (last.op = "Load" /\ last.after # NoData /\ NoIoError) =>
           /\ last.result = Success
           /\ last.buffer = last.after
           /\ Len(last.buffer) = last.query.dataSize

\* C1 amended: the same, on a layer whose store policy and load policy do not
\* contain Skip.
C1_StoreQueryLoad ==
    (last.after # NoData /\ Skip \notin StorePolicy /\ Skip \notin LoadPolicy)
        => C1_StoreQueryLoad_AnyPolicy

C1_Witness ==
    /\ last.op = "Load" /\ last.after = <<7, 9>> /\ last.result = Success
    /\ last.buffer = <<7, 9>> /\ last.query.dataSize = 2
    /\ Skip \notin StorePolicy /\ Skip \notin LoadPolicy

\* ---- C2
\* C2 as stated: once Store(h) has returned Success on a layer, a Query(h) on
\* that layer does not report NotFound, whatever the layer's policies are
\* (here: the Query that comes right after the Store).
C2_QueryObservesStore_AnyPolicy ==
    (last.op = "Query" /\ last.after # NoData) => last.result # NotFound

\* C2 amended: once a Store(h) made while the layer's store policy does not
\* contain Skip has returned Success, every later Query(h) on that layer made
\* while its load policy does not contain Skip does not report NotFound: the
\* Store leaves an entry in the layer, no call ever removes an entry, and a
\* Query that looks into the layer reports NotFound only when there is no entry.
C2_QueryObservesStore ==
    /\ [](  (last.op = "Store" /\ last.valid /\ last.result = Success
             /\ Skip \notin StorePolicy)
          => m_entries[This][last.hashId] = last.data)
    /\ [][\A l \in Layers, h \in Hashes :
            m_entries[l][h] # NoData => m_entries'[l][h] # NoData]_vars
    /\ [](  (last.op = "Query" /\ last.valid /\ last.result = NotFound
             /\ Skip \notin LoadPolicy)
          => m_entries[This][last.hashId] = NoData)

C2_Witness ==
    /\ last.op = "Query" /\ last.after # NoData /\ last.result = Success
    /\ last.query = QueryResult(This, last.hashId, Len(last.after))
    /\ Skip \notin StorePolicy /\ Skip \notin LoadPolicy

\* ---- C3
\* C3: the result of Store is the result of the layer's own StoreInternal,
\* whatever BatchData and the next layer's Store return.
C3_StoreResultIsOwn ==
    (last.op = "Store" /\ Made("StoreInternal", This))
        => last.result = ResultOf("StoreInternal", This)

\* The next layer's Store failed, or BatchData failed, and Store succeeded.
C3_Witness ==
    /\ last.op = "Store" /\ Made("StoreInternal", This) /\ last.result = Success
    /\ NextOfThis # NULL /\ Made("Store", NextOfThis)
    /\ ResultOf("Store", NextOfThis) = IoError

\* ---- C4
\* C4: Store passes the data on exactly when the local result is not an error,
\* a next layer is linked and PassData is in the store policy: with BatchStore
\* it calls BatchData, and the next layer's Store only when BatchData reports
\* Unsupported; without BatchStore it calls the next layer's Store.  After an
\* error of StoreInternal the next layer gets neither.
C4_StorePropagation ==
    (last.op = "Store" /\ last.valid) =>
        LET own  == IF Made("StoreInternal", This)
                    THEN ResultOf("StoreInternal", This) ELSE Success
            pass == /\ ~IsErrorResult(own)
                    /\ NextOfThis # NULL
                    /\ PassData \in StorePolicy
        IN  /\ Made("StoreInternal", This) <=> (Skip \notin StorePolicy)
            /\ Made("BatchData", This) <=> (pass /\ BatchStore \in StorePolicy)
            /\ NextOfThis # NULL =>
                 (Made("Store", NextOfThis) <=>
                     (pass /\ (BatchStore \in StorePolicy
                                  => ResultOf("BatchData", This) = Unsupported)))
            /\ IsErrorResult(own) => Len(last.trace) = 1

\* BatchData reported Unsupported and the data went to the next layer's Store.
C4_Witness ==
    /\ last.op = "Store" /\ last.valid /\ BatchStore \in StorePolicy
    /\ Made("BatchData", This) /\ ResultOf("BatchData", This) = Unsupported
    /\ NextOfThis # NULL /\ Made("Store", NextOfThis)
    /\ m_entries[NextOfThis][last.hashId] = last.data

\* ---- C5
\* C5: Query asks the next layer exactly when the local outcome is NotFound,
\* PassCalls is in the load policy and a next layer is linked; any other local
\* outcome is returned as it is.
C5_QueryForwarding ==
    (last.op = "Query" /\ last.valid) =>
        LET own == IF Made("QueryInternal", This)
                   THEN ResultOf("QueryInternal", This) ELSE NotFound
            fwd == NextOfThis # NULL /\ Made("Query", NextOfThis)
        IN  /\ fwd <=> (own = NotFound /\ PassCalls \in LoadPolicy /\ NextOfThis # NULL)
            /\ ~fwd => (last.result = own /\ Len(last.trace) <= 1)

\* The layer's own lookup failed with an I/O error: the error is returned and
\* the linked next layer, which PassCalls would reach, is not asked.
C5_Witness ==
    /\ last.op = "Query" /\ last.valid /\ last.result = IoError
    /\ Made("QueryInternal", This) /\ ResultOf("QueryInternal", This) = IoError
    /\ NextOfThis # NULL /\ PassCalls \in LoadPolicy /\ ~Made("Query", NextOfThis)

\* ---- C6
\* C6 as stated: with Skip in its policy and a next layer linked, a layer never
\* calls its own QueryInternal (StoreInternal) and the call always reaches the
\* next layer's Query (Store), whatever the other flags are.
C6_SkipAlwaysDelegates ==
    /\ (last.op = "Query" /\ last.valid /\ Skip \in LoadPolicy /\ NextOfThis # NULL)
           => (~Made("QueryInternal", This) /\ Made("Query", NextOfThis))
    /\ (last.op = "Store" /\ last.valid /\ Skip \in StorePolicy /\ NextOfThis # NULL)
           => (~Made("StoreInternal", This) /\ Made("Store", NextOfThis))

\* C6 amended: with Skip in the load policy Query never calls QueryInternal, and
\* the call reaches the next layer's Query exactly when a next layer is linked
\* and PassCalls is in the load policy; with Skip in the store policy Store never
\* calls StoreInternal, and the data reaches the next layer's Store exactly when a
\* next layer is linked, PassData is in the store policy and either BatchStore is
\* not or BatchData reports Unsupported.
C6_SkipBypassesOwnStorage ==
    /\ (last.op = "Query" /\ last.valid /\ Skip \in LoadPolicy) =>
           /\ ~Made("QueryInternal", This)
           /\ NextOfThis = NULL => last.trace = <<>>
           /\ NextOfThis # NULL =>
                  (Made("Query", NextOfThis) <=> PassCalls \in LoadPolicy)
    /\ (last.op = "Store" /\ last.valid /\ Skip \in StorePolicy) =>
           /\ ~Made("StoreInternal", This)
           /\ NextOfThis = NULL => last.trace = <<>>
           /\ NextOfThis # NULL =>
                  (Made("Store", NextOfThis) <=>
                      /\ PassData \in StorePolicy
                      /\ BatchStore \in StorePolicy
                            => ResultOf("BatchData", This) = Unsupported)

\* A Store on a layer that skips its own storage: the data is in the next layer
\* and not in this one.
C6_Witness ==
    /\ last.op = "Store" /\ last.valid /\ Skip \in StorePolicy /\ last.result = Success
    /\ NextOfThis # NULL /\ Made("Store", NextOfThis)
    /\ m_entries[NextOfThis][last.hashId] = last.data
    /\ m_entries[This][last.hashId] = NoData

\* ---- C7
\* C7: when the Query (Load) forwarded to the next layer has succeeded, the
\* caller gets Success, whatever PromoteData returns.
C7_PromotionBestEffort ==
    (/\ last.op \in {"Query", "Load"}
     /\ NextOfThis # NULL
     /\ Made(last.op, NextOfThis)
     /\ ResultOf(last.op, NextOfThis) = Success)
        => last.result = Success

\* The promotion that followed a successful forwarded Query failed with an error.
C7_Witness ==
    /\ last.op = "Query" /\ last.result = Success
    /\ Made("PromoteData", This) /\ IsErrorResult(ResultOf("PromoteData", This))

C9_PromoteOnLoad ==
    /\ (last.op = "Query" /\ last.valid /\ LoadOnQuery \notin LoadPolicy)
           => (~Made("PromoteData", This) /\ This \notin last.changed)
    /\ (last.op = "Load" /\ last.valid /\ last.result = Success
        /\ last.query.pLayer # This
        /\ PassData \in LoadPolicy /\ LoadOnQuery \notin LoadPolicy)
           => Cardinality(Events("PromoteData", This)) = 1
    /\ (last.op = "Load" /\ last.valid /\ LoadOnQuery \in LoadPolicy)
           => ~Made("PromoteData", This)

\* A Load through a layer that did not hold the data: it is promoted now.
C9_Witness ==
    /\ last.op = "Load" /\ last.result = Success /\ last.query.pLayer # This
    /\ {PassCalls, PassData} \subseteq LoadPolicy /\ LoadOnQuery \notin LoadPolicy
    /\ Cardinality(Events("PromoteData", This)) = 1
    /\ ResultOf("PromoteData", This) = Success
    /\ This \in last.changed
    /\ m_entries[This][last.hashId] = last.buffer

\* ---- C10
\* C10: a Query that another layer satisfied, without promotion, names that layer
\* and the size of its data; Load calls LoadInternal of the layer the QueryResult
\* names and of no other layer, and a successful Load returns that layer's bytes;
\* Load calls this layer's LoadInternal exactly when the QueryResult names this
\* layer, and otherwise forwards exactly when PassCalls is set and a next layer
\* is linked.
C10_LoadFromNamedLayer ==
    /\ (/\ last.op = "Query" /\ last.result = Success
        /\ (~Made("QueryInternal", This) \/ ResultOf("QueryInternal", This) # Success))
           => (\/ \E l \in Layers : /\ Made("PromoteData", l)
                                     /\ ResultOf("PromoteData", l) = Success
               \/ /\ last.query.pLayer \in Layers \ {This}
                  /\ Made("QueryInternal", last.query.pLayer)
                  /\ ResultOf("QueryInternal", last.query.pLayer) = Success
                  /\ last.query.hashId = last.hashId
                  /\ last.query.dataSize
                         = Len(m_entries[last.query.pLayer][last.hashId]))
    /\ (last.op = "Load" /\ last.valid) =>
           /\ \A l \in Layers : Made("LoadInternal", l) => l = last.query.pLayer
           /\ Made("LoadInternal", This) <=> (last.query.pLayer = This)
           /\ NextOfThis # NULL =>
                  (Made("Load", NextOfThis) <=>
                      (last.query.pLayer # This /\ PassCalls \in LoadPolicy))
           /\ last.result = Success =>
                  /\ Made("LoadInternal", last.query.pLayer)
                  /\ last.buffer = m_entries[last.query.pLayer][last.hashId]

\* A Load through the head for data the next layer holds.
C10_Witness ==
    /\ last.op = "Load" /\ last.result = Success
    /\ NextOfThis # NULL /\ last.query = QueryResult(NextOfThis, last.hashId, 2)
    /\ Made("LoadInternal", NextOfThis) /\ ~Made("LoadInternal", This)
    /\ last.buffer = <<7, 9>>

\* ---- C11
\* C11 as stated: every failing Load returns an invalid-argument error,
\* NotFound or an I/O error.
C11_LoadErrorKinds ==
    (last.op = "Load" /\ last.result # Success)
        => last.result \in {ErrorInvalidPointer, NotFound, IoError}

\* C11 amended: every failing Load returns an invalid-pointer error, NotFound,
\* an I/O error or ErrorUnknown; a Load whose QueryResult names a different
\* layer, on a layer that has no next layer or has PassCalls unset, returns
\* ErrorUnknown without calling LoadInternal or any other layer.
C11_LoadErrorKindsWithUnknown ==
    /\ (last.op = "Load" /\ last.result # Success)
           => last.result \in {ErrorInvalidPointer, NotFound, IoError, ErrorUnknown}
    /\ (/\ last.op = "Load" /\ last.valid
        /\ last.query.pLayer # This
        /\ (NextOfThis = NULL \/ PassCalls \notin LoadPolicy))
           => /\ last.result = ErrorUnknown
              /\ last.trace = <<>>
              /\ last.changed = {}

\* A Load on an unlinked layer with a QueryResult that names the other layer.
C11_Witness ==
    /\ last.op = "Load" /\ last.valid
    /\ last.query.pLayer \in Layers \ {This}
    /\ NextOfThis = NULL
    /\ last.result = ErrorUnknown

\* ---- C12
\* C12: SetLoadPolicy with BatchStore among the flags, and SetStorePolicy with
\* LoadOnQuery among the flags, return ErrorInvalidValue and leave both policies
\* of every layer as they were; with any other flags they return Success and
\* replace that policy of that layer and nothing else.
C12_PolicyValidation ==
    [][/\ last'.op = "SetLoadPolicy" =>
            /\ m_storePolicy' = m_storePolicy
            /\ IF BatchStore \in last'.args.loadPolicy
               THEN /\ last'.result = ErrorInvalidValue
                    /\ m_loadPolicy' = m_loadPolicy
               ELSE /\ last'.result = Success
                    /\ m_loadPolicy' =
                         [m_loadPolicy EXCEPT ![last'.layer] = last'.args.loadPolicy]
       /\ last'.op = "SetStorePolicy" =>
            /\ m_loadPolicy' = m_loadPolicy
            /\ IF LoadOnQuery \in last'.args.storePolicy
               THEN /\ last'.result = ErrorInvalidValue
                    /\ m_storePolicy' = m_storePolicy
               ELSE /\ last'.result = Success
                    /\ m_storePolicy' =
                         [m_storePolicy EXCEPT ![last'.layer] = last'.args.storePolicy]
      ]_vars

\* A rejected SetLoadPolicy: the flags held BatchStore among others and the
\* policy is the one the layer was constructed with.
C12_Witness ==
    /\ last.op = "SetLoadPolicy"
    /\ last.args.loadPolicy = {BatchStore, PassCalls, Skip}
    /\ last.result = ErrorInvalidValue
    /\ LoadPolicy = {PassData, PassCalls}

\* ---- C13
\* C13: Store with a hash, data and size 0 returns ErrorInvalidValue, calls
\* neither StoreInternal nor BatchData nor the next layer's Store, and changes
\* no layer.
C13_StoreZeroSize ==
    (/\ last.op = "Store"
     /\ last.args.pHashId # NULL /\ last.args.pData # NULL
     /\ last.args.dataSize = 0)
        => /\ last.result = ErrorInvalidValue
           /\ last.trace = <<>>
           /\ last.changed = {}

\* A Store of size 0 on a layer that would store and pass the data on.
C13_Witness ==
    /\ last.op = "Store" /\ last.args.pHashId # NULL /\ last.args.pData # NULL
    /\ last.args.dataSize = 0
    /\ Skip \notin StorePolicy /\ PassData \in StorePolicy /\ NextOfThis # NULL
    /\ last.result = ErrorInvalidValue

\* ---- C14
\* C14: Query without a hash or without a result slot, Store without a hash or
\* without data, and Load without a QueryResult or without a buffer return
\* ErrorInvalidPointer; none of them calls an Internal method or the next layer.
C14_AbsentPointers ==
    (\/ /\ last.op = "Query"
        /\ (last.args.pHashId = NULL \/ last.args.pQueryIsNull)
     \/ /\ last.op = "Store"
        /\ (last.args.pHashId = NULL \/ last.args.pData = NULL)
     \/ /\ last.op = "Load"
        /\ (last.args.pQuery = NullQuery \/ last.args.pBuffer = NULL))
        => /\ last.result = ErrorInvalidPointer
           /\ last.trace = <<>>
           /\ last.changed = {}

\* A Load without a buffer, for data the linked next layer holds.
C14_Witness ==
    /\ last.op = "Load" /\ last.args.pBuffer = NULL
    /\ last.args.pQuery # NullQuery
    /\ NextOfThis # NULL /\ last.args.pQuery.pLayer = NextOfThis
    /\ PassCalls \in LoadPolicy
    /\ last.result = ErrorInvalidPointer

C16_LoadKeepsQuery ==
    (last.op = "Load" /\ last.args.pQuery # NullQuery)
        => last.query = last.args.pQuery

\* A Load that promoted the data into this layer: the QueryResult still names
\* the next layer.
C16_Witness ==
    /\ last.op = "Load" /\ last.result = Success
    /\ Made("PromoteData", This) /\ ResultOf("PromoteData", This) = Success
    /\ This \in last.changed
    /\ last.args.pQuery.pLayer = NextOfThis
    /\ last.query.pLayer = NextOfThis

\* ================================================= FileArchiveCacheLayer
\* One layer over one archive file, called by several threads at once.  Every
\* step of a call that another thread can observe is one action.
HashMutexFree == m_hashContextMutex = NoThread

FileMutexFree_Always == TRUE

FileMutexFree == m_archiveFileMutex = NoThread

\* The reader/writer lock: a writer excludes everyone, a reader only writers.
WriteLockFree ==
    (m_entryMapLock.writer = NoThread) /\ (m_entryMapLock.readers = {})
ReadLockFree == m_entryMapLock.writer = NoThread

\* The number of queries the threads in S have started.
RECURSIVE QueriesOf(_)
QueriesOf(S) ==
    IF S = {} THEN 0
    ELSE LET t == CHOOSE u \in S : TRUE
         IN  thread[t].queries + QueriesOf(S \ {t})

\* Every thread's Store has returned Success.
AllStored == \A t \in Threads : thread[t].stored = Success

\* StoreInternal(pHashId, pData, dataSize) starts: it takes the hash context.
BeginStore(t, dataSize) ==
    /\ thread[t].pc = "idle" /\ thread[t].stored = "no"
    /\ HashMutexFree
    /\ m_hashContextMutex' = t
    /\ thread' = [thread EXCEPT ![t] =
                    [@ EXCEPT !.pc = "hash", !.op = "Store", !.hashId = HashOf(t),
                              !.dataSize = dataSize]]
    /\ UNCHANGED <<m_archiveFile, m_entryMap, m_lastOrdinal, m_archiveFileMutex,
                   m_entryMapLock, m_hashContext>>
    /\ UNCHANGED <<cacheVars, queueVars>>

\* QueryInternal(pHashId, pQuery) starts, after the thread's own Store.
BeginQuery(t, hashId) ==
    /\ thread[t].pc = "idle" /\ thread[t].stored # "no"
    /\ QueriesOf(Threads) < MaxQueries
    /\ HashMutexFree
    /\ m_hashContextMutex' = t
    /\ thread' = [thread EXCEPT ![t] =
                    [@ EXCEPT !.pc = "hash", !.op = "Query", !.hashId = hashId,
                              !.refreshed = FALSE, !.afterStores = AllStored,
                              !.queries = @ + 1, !.found = "no", !.foundSize = 0]]
    /\ UNCHANGED <<m_archiveFile, m_entryMap, m_lastOrdinal, m_archiveFileMutex,
                   m_entryMapLock, m_hashContext>>
    /\ UNCHANGED <<cacheVars, queueVars>>

\* ConvertToEntryKey, first half: the hash is fed to the shared hash context.
HashUpdate(t) ==
    /\ thread[t].pc = "hash"
    /\ m_hashContext' = thread[t].hashId
    /\ thread' = [thread EXCEPT ![t].pc = "key"]
    /\ UNCHANGED <<m_archiveFile, m_entryMap, m_lastOrdinal, m_archiveFileMutex,
                   m_hashContextMutex, m_entryMapLock>>
    /\ UNCHANGED <<cacheVars, queueVars>>

\* ConvertToEntryKey, second half: the key is read off the context, and the
\* hash context is released.
HashFinish(t) ==
    /\ thread[t].pc = "key"
    /\ thread' = [thread EXCEPT ![t] =
                    [@ EXCEPT !.key = ConvertToEntryKey(m_hashContext),
                              !.pc = IF thread[t].op = "Store" THEN "lockFile"
                                     ELSE "lockMap"]]
    /\ m_hashContextMutex' = NoThread
    /\ UNCHANGED <<m_archiveFile, m_entryMap, m_lastOrdinal, m_archiveFileMutex,
                   m_entryMapLock, m_hashContext>>
    /\ UNCHANGED <<cacheVars, queueVars>>

\* StoreInternal takes the archive file and learns the next ordinal.
StoreLockFile(t) ==
    /\ thread[t].pc = "lockFile"
    /\ FileMutexFree
    /\ m_archiveFileMutex' = t
    /\ thread' = [thread EXCEPT ![t] =
                    [@ EXCEPT !.pc = "append", !.ordinalId = Len(m_archiveFile) + 1]]
    /\ UNCHANGED <<m_archiveFile, m_entryMap, m_lastOrdinal, m_hashContextMutex,
                   m_entryMapLock, m_hashContext>>
    /\ UNCHANGED <<cacheVars, queueVars>>

\* The record of a header and its payload in the archive.
Record(key, dataSize) == [key |-> key, dataSize |-> dataSize]

\* The archive after a record was written at an ordinal.
Written(file, ordinalId, record) ==
    IF ordinalId = Len(file) + 1
    THEN Append(file, record)
    ELSE [file EXCEPT ![ordinalId] = record]

StoreInserts_Always(appendResult) == TRUE

\* Only a record that was appended gets an entry in the index.
StoreInserts(appendResult) == appendResult = Success

\* The append of header and payload, which succeeds or fails with an I/O
\* error; then the archive file is released.
StoreAppend(t, appendResult) ==
    /\ thread[t].pc = "append"
    /\ m_archiveFile' =
          IF appendResult = Success
          THEN Written(m_archiveFile, thread[t].ordinalId,
                       Record(thread[t].key, thread[t].dataSize))
          ELSE m_archiveFile
    /\ m_archiveFileMutex' = NoThread
    /\ thread' = [thread EXCEPT ![t] =
                    IF StoreInserts(appendResult)
                    THEN [@ EXCEPT !.pc = "insert"]
                    ELSE [IdleThread EXCEPT !.op = "Store", !.hashId = thread[t].hashId,
                                            !.stored = appendResult]]
    /\ UNCHANGED <<m_entryMap, m_lastOrdinal, m_hashContextMutex, m_entryMapLock,
                   m_hashContext>>
    /\ UNCHANGED <<cacheVars, queueVars>>

\* Under the write lock the entry goes into the index, and Store returns.
StoreInsert(t) ==
    /\ thread[t].pc = "insert"
    /\ WriteLockFree
    /\ m_entryMap' = [m_entryMap EXCEPT ![thread[t].key] =
                         Entry(thread[t].ordinalId, thread[t].dataSize)]
    /\ thread' = [thread EXCEPT ![t] =
                    [IdleThread EXCEPT !.op = "Store", !.hashId = thread[t].hashId,
                                       !.stored = Success,
                                       !.storedSize = thread[t].dataSize]]
    /\ UNCHANGED <<m_archiveFile, m_lastOrdinal, m_archiveFileMutex,
                   m_hashContextMutex, m_entryMapLock, m_hashContext>>
    /\ UNCHANGED <<cacheVars, queueVars>>

\* QueryInternal takes the read lock on the index.
QueryLockMap(t) ==
    /\ thread[t].pc = "lockMap"
    /\ ReadLockFree
    /\ m_entryMapLock' = [m_entryMapLock EXCEPT !.readers = @ \cup {t}]
    /\ thread' = [thread EXCEPT ![t].pc = "find"]
    /\ UNCHANGED <<m_archiveFile, m_entryMap, m_lastOrdinal, m_archiveFileMutex,
                   m_hashContextMutex, m_hashContext>>
    /\ UNCHANGED <<cacheVars, queueVars>>

\* The lookup: a hit returns the entry's size; the first miss goes to
\* RefreshHeaders, the second returns NotFound.
QueryFind(t) ==
    /\ thread[t].pc = "find"
    /\ m_entryMapLock' = [m_entryMapLock EXCEPT !.readers = @ \ {t}]
    /\ thread' = [thread EXCEPT ![t] =
                    IF m_entryMap[thread[t].key] # NoEntry
                    THEN [@ EXCEPT !.pc = "idle", !.key = 0, !.refreshed = FALSE,
                                   !.found = Success,
                                   !.foundSize = m_entryMap[thread[t].key].dataSize]
                    ELSE IF thread[t].refreshed
                    THEN [@ EXCEPT !.pc = "idle", !.key = 0, !.refreshed = FALSE,
                                   !.found = NotFound]
                    ELSE [@ EXCEPT !.pc = "refresh"]]
    /\ UNCHANGED <<m_archiveFile, m_entryMap, m_lastOrdinal, m_archiveFileMutex,
                   m_hashContextMutex, m_hashContext>>
    /\ UNCHANGED <<cacheVars, queueVars>>

\* AddHeaderToTable for the headers from ordinal `from` on: the index keeps the
\* mapping seen last.
RECURSIVE AddHeadersToTable(_, _, _)
AddHeadersToTable(entries, file, from) ==
    IF from > Len(file) THEN entries
    ELSE AddHeadersToTable(
             [entries EXCEPT ![file[from].key] = Entry(from, file[from].dataSize)],
             file, from + 1)

\* RefreshHeaders: with the archive file held, the headers after the last
\* ordinal seen go into the index; or the scan fails with an I/O error.
RefreshHeaders(t, scanResult) ==
    /\ thread[t].pc = "refresh"
    /\ FileMutexFree
    /\ WriteLockFree
    /\ IF scanResult = Success
       THEN /\ m_entryMap' = AddHeadersToTable(m_entryMap, m_archiveFile,
                                               m_lastOrdinal + 1)
            /\ m_lastOrdinal' = Len(m_archiveFile)
            /\ thread' = [thread EXCEPT ![t] =
                            [@ EXCEPT !.pc = "lockMap", !.refreshed = TRUE]]
       ELSE /\ UNCHANGED <<m_entryMap, m_lastOrdinal>>
            /\ thread' = [thread EXCEPT ![t] =
                            [@ EXCEPT !.pc = "idle", !.key = 0, !.found = scanResult]]
    /\ UNCHANGED <<m_archiveFile, m_archiveFileMutex, m_hashContextMutex,
                   m_entryMapLock, m_hashContext>>
    /\ UNCHANGED <<cacheVars, queueVars>>

ArchiveNext ==
    \E t \in Threads :
        \/ \E dataSize \in Sizes : BeginStore(t, dataSize)
        \/ \E u \in Threads : BeginQuery(t, HashOf(u))
        \/ HashUpdate(t)
        \/ HashFinish(t)
        \/ StoreLockFile(t)
        \/ \E appendResult \in {Success, IoError} : StoreAppend(t, appendResult)
        \/ StoreInsert(t)
        \/ QueryLockMap(t)
        \/ QueryFind(t)
        \/ \E scanResult \in {Success, IoError} : RefreshHeaders(t, scanResult)

ArchiveSpec == Init /\ [][ArchiveNext]_vars

\* The entry the index holds for the hash of thread t.
EntryOf(t) == m_entryMap[ConvertToEntryKey(HashOf(t))]

\* ---- C17
\* C17: once the Stores of all threads, of pairwise distinct hashes, have
\* returned Success, the index holds every hash with the size that was stored
\* and pairwise distinct ordinals, and a Query of any thread that started after
\* that finds the hash it asks for, with that size.
C17_ConcurrentStores ==
    AllStored =>
        /\ \A t \in Threads :
              /\ EntryOf(t) # NoEntry
              /\ EntryOf(t).dataSize = thread[t].storedSize
        /\ \A t, u \in Threads :
              t # u => EntryOf(t).ordinalId # EntryOf(u).ordinalId
        /\ \A t \in Threads :
              (thread[t].op = "Query" /\ thread[t].pc = "idle" /\ thread[t].afterStores)
                 => /\ thread[t].found = Success
                    /\ \E u \in Threads :
                          /\ HashOf(u) = thread[t].hashId
                          /\ thread[t].foundSize = thread[u].storedSize

\* Both Stores done, with payloads of different sizes; thread 1 then asked for
\* the hash thread 2 stored and found it with thread 2's size.
C17_Witness ==
    /\ AllStored
    /\ thread[1].storedSize = 1 /\ thread[2].storedSize = 2
    /\ thread[1].op = "Query" /\ thread[1].pc = "idle" /\ thread[1].afterStores
    /\ thread[1].hashId = HashOf(2)
    /\ thread[1].found = Success /\ thread[1].foundSize = 2

\* ---- C18
\* C18: in every state, every entry of the index has the ordinal of a record
\* that is in the archive, and the size of that record's payload; also after a
\* Store whose append failed.
C18_IndexRefersToArchive ==
    \A k \in EntryKeys :
        m_entryMap[k] # NoEntry =>
            /\ m_entryMap[k].ordinalId \in 1..Len(m_archiveFile)
            /\ m_archiveFile[m_entryMap[k].ordinalId].dataSize = m_entryMap[k].dataSize

\* The append of thread 1 failed, the Store of thread 2 went through.
C18_Witness ==
    /\ thread[1].stored = IoError /\ thread[1].pc = "idle"
    /\ thread[2].stored = Success
    /\ EntryOf(1) = NoEntry
    /\ EntryOf(2) = Entry(1, thread[2].storedSize)
    /\ Len(m_archiveFile) = 1

\* ====================================================== DbgOverlay::Queue
\* A submission: whether pPerSubQueueInfo is there, the number of command
\* buffers of the primary sub-queue and whether the last one contains a present.
SubmitInfos ==
    {NoSubQueueInfo}
    \cup [hasSubQueue : {TRUE}, perSubQueueInfoCount : 1..MaxSubQueues,
          cmdBufferCount : {0}, lastContainsPresent : {FALSE},
          hasCmdBufInfoList : {FALSE}]
    \cup [hasSubQueue : {TRUE}, perSubQueueInfoCount : 1..MaxSubQueues,
          cmdBufferCount : 1..MaxCmdBuffers, lastContainsPresent : BOOLEAN,
          hasCmdBufInfoList : BOOLEAN]

\* The command buffers of the application, and those of a timestamp pair.
AppCmdBuffers(n)      == [i \in 1..n |-> [kind |-> "app", id |-> i]]
pBeginCmdBuffer(pair) == [kind |-> "begin", id |-> pair]
pEndCmdBuffer(pair)   == [kind |-> "end", id |-> pair]

\* A pCmdBufInfoList: absent, or one CmdBufInfo per command buffer.
NullCmdBufInfoList == [isNull |-> TRUE, entries |-> <<>>]
CmdBufInfoList(entries) == [isNull |-> FALSE, entries |-> entries]
\* A CmdBufInfo with u32All = 0, and the one the application gives for its
\* i-th command buffer (the first is valid and names a primary memory).
NoPrimaryMemory == 0
ZeroCmdBufInfo == [isValid |-> FALSE, pPrimaryMemory |-> NoPrimaryMemory]
AppCmdBufInfo(i) ==
    [isValid |-> (i = 1), pPrimaryMemory |-> IF i = 1 THEN i ELSE NoPrimaryMemory]

\* submitInfo.pPerSubQueueInfo: the primary sub-queue first, then the others,
\* each with one command buffer of its own.
PerSubQueueInfo(submitInfo) ==
    [q \in 1..submitInfo.perSubQueueInfoCount |->
        IF q = 1
        THEN [ppCmdBuffers |-> AppCmdBuffers(submitInfo.cmdBufferCount),
              pCmdBufInfoList |->
                  IF submitInfo.hasCmdBufInfoList
                  THEN CmdBufInfoList([i \in 1..submitInfo.cmdBufferCount |->
                                          AppCmdBufInfo(i)])
                  ELSE NullCmdBufInfoList]
        ELSE [ppCmdBuffers |-> <<[kind |-> "app", id |-> MaxCmdBuffers + q]>>,
              pCmdBufInfoList |-> NullCmdBufInfoList]]

\* The steps of CreateGpuTimestampPair that can fail, in the order they are
\* made; "none" when none fails.
CreateSteps ==
    <<"new", "CreateFence", "CreateCmdBuffer(begin)", "CreateCmdBuffer(end)",
      "pBeginCmdBuffer->Begin", "pBeginCmdBuffer->End", "pEndCmdBuffer->Begin",
      "pEndCmdBuffer->End", "none">>
StepNo(step) == CHOOSE i \in DOMAIN CreateSteps : CreateSteps[i] = step
\* The step was reached and did not fail.
Passed(step, failing) == StepNo(step) < StepNo(failing)

\* What the environment decides during one Submit.
NoSubmitFaults ==
    [ResetFences |-> Success, create |-> "none", nullDeref |-> "returns",
     PushBack |-> Success, autoBuffers |-> TRUE, nextSubmit |-> Success,
     AssociateFence |-> Success]

\* The same, without the look at the last command buffer.
AddTimestamps_AlsoWithPresent(submitInfo) ==
    /\ m_supportTimestamps
    /\ submitInfo.hasSubQueue
    /\ submitInfo.cmdBufferCount > 0

\* Determine if we should add timestamps to this submission.
AddTimestamps(submitInfo) ==
    /\ m_supportTimestamps
    /\ submitInfo.hasSubQueue
    /\ submitInfo.cmdBufferCount > 0
    /\ submitInfo.lastContainsPresent = FALSE

\* The same, without the test of numActiveSubmissions.
CanReuse_AnyFront == Len(m_gpuTimestampPairDeque) > 0

\* There is a pair at the front of the deque that no submission uses.
CanReuse ==
    /\ Len(m_gpuTimestampPairDeque) > 0
    /\ pairs[Head(m_gpuTimestampPairDeque)].numActiveSubmissions = 0

CanCreate == m_nextTimestampOffset < m_timestampMemorySize

\* The id the next new GpuTimestampPair gets.
NewPair == CHOOSE p \in PairIds \cup {NoPair} :
              \/ /\ p \in PairIds /\ pairs[p].state = "free"
                 /\ \A q \in PairIds : pairs[q].state = "free" => p <= q
              \/ /\ p = NoPair /\ \A q \in PairIds : pairs[q].state # "free"

\* CreateGpuTimestampPair(&pTimestamp) with the step `failing` failing: the
\* result, the pair handed out, the timestamp offsets written and the new
\* m_nextTimestampOffset.  When PAL_NEW fails, DestroyGpuTimestampPair is called
\* with a null pointer and dereferences it: the call crashes, or returns.
CreateGpuTimestampPair(failing, nullDeref) ==
    LET beginOffset == m_nextTimestampOffset
        endOffset   == beginOffset + m_timestampAlignment
        ok          == failing = "none"
    IN  [result     |-> IF ok THEN Success
                        ELSE IF failing = "new" THEN ErrorOutOfMemory
                        ELSE ErrorUnknown,
         pTimestamp |-> IF ok THEN NewPair ELSE NoPair,
         writes     |-> (IF Passed("pBeginCmdBuffer->Begin", failing)
                         THEN <<beginOffset>> ELSE <<>>)
                        \o (IF Passed("pEndCmdBuffer->Begin", failing)
                            THEN <<endOffset>> ELSE <<>>),
         offset     |-> IF ok THEN endOffset + m_timestampAlignment
                        ELSE IF Passed("pBeginCmdBuffer->End", failing) THEN endOffset
                        ELSE beginOffset,
         returned   |-> (failing # "new") \/ (nullDeref = "returns")]

\* (lhs, rhs) -> the first of the two that is not Success.
CollapseResults(lhs, rhs) == IF lhs # Success THEN lhs ELSE rhs

\* The same, with the end command buffer put before the application's.
TimedCmdBuffers_EndSecond(ppCmdBuffers, pTimestamp) ==
    <<pBeginCmdBuffer(pTimestamp), pEndCmdBuffer(pTimestamp)>> \o ppCmdBuffers

\* cmdBuffers: the begin command buffer, the command buffers of the
\* submission, the end command buffer.
TimedCmdBuffers(ppCmdBuffers, pTimestamp) ==
    <<pBeginCmdBuffer(pTimestamp)>> \o ppCmdBuffers \o <<pEndCmdBuffer(pTimestamp)>>

\* cmdBufInfoList: left null if it was null in submitInfo; otherwise an empty
\* entry, the entries of the submission (pPrimaryMemory only of valid ones) and
\* an empty entry.
TimedCmdBufInfoList(pCmdBufInfoList) ==
    IF pCmdBufInfoList.isNull
    THEN NullCmdBufInfoList
    ELSE CmdBufInfoList(
            <<ZeroCmdBufInfo>>
            \o [i \in DOMAIN pCmdBufInfoList.entries |->
                  [isValid |-> pCmdBufInfoList.entries[i].isValid,
                   pPrimaryMemory |->
                       IF pCmdBufInfoList.entries[i].isValid
                       THEN pCmdBufInfoList.entries[i].pPrimaryMemory
                       ELSE NoPrimaryMemory]]
            \o <<ZeroCmdBufInfo>>)

\* SubmitWithGpuTimestampPair(submitInfo, pTimestamp): the submissions handed to
\* the next layer, the result, and the pair given to the FPS manager.
SubmitWithGpuTimestampPair(submitInfo, pTimestamp, env) ==
    IF env.autoBuffers = FALSE
    THEN [result |-> ErrorOutOfMemory, forwarded |-> <<>>,
          finalSubmitInfo |-> NoPerSubQueueInfo, timelist |-> NoPair]
    ELSE LET perSubQueueInfo == PerSubQueueInfo(submitInfo)
             cmdBuffers == TimedCmdBuffers(perSubQueueInfo[1].ppCmdBuffers, pTimestamp)
             final == [perSubQueueInfo EXCEPT
                         ![1] = [ppCmdBuffers |-> cmdBuffers,
                                 pCmdBufInfoList |->
                                     TimedCmdBufInfoList(@.pCmdBufInfoList)]]
             result == IF env.nextSubmit = Success THEN env.AssociateFence
                       ELSE env.nextSubmit
         IN  [result |-> result, forwarded |-> <<cmdBuffers>>,
              finalSubmitInfo |-> final,
              timelist |-> IF result = Success THEN pTimestamp ELSE NoPair]

\* The first part of Submit with timestamps: a pair is taken from the front of
\* the deque, or created, or neither.
AcquirePair(env) ==
    IF CanReuse
    THEN \* PopFront of a deque that is not empty succeeds
         [path |-> "reuse", result |-> env.ResetFences,
          pTimestamp |-> Head(m_gpuTimestampPairDeque),
          deque |-> Tail(m_gpuTimestampPairDeque),
          writes |-> <<>>, offset |-> m_nextTimestampOffset, returned |-> TRUE,
          failed |-> IF env.ResetFences # Success THEN {"ResetFences"} ELSE {}]
    ELSE IF CanCreate
    THEN LET c == CreateGpuTimestampPair(env.create, env.nullDeref)
         IN  [path |-> "create", result |-> c.result, pTimestamp |-> c.pTimestamp,
              deque |-> m_gpuTimestampPairDeque,
              writes |-> c.writes, offset |-> c.offset, returned |-> c.returned,
              failed |-> IF c.result # Success THEN {"CreateGpuTimestampPair"} ELSE {}]
    ELSE [path |-> "neither", result |-> Success, pTimestamp |-> NoPair,
          deque |-> m_gpuTimestampPairDeque,
          writes |-> <<>>, offset |-> m_nextTimestampOffset, returned |-> TRUE,
          failed |-> {}]

\* Queue::Submit(submitInfo): what the call observes and does, and the state
\* it leaves.
Submit(submitInfo, env) ==
    IF AddTimestamps(submitInfo) = FALSE
    THEN [NoSubmit EXCEPT !.op = "Submit", !.submitInfo = submitInfo,
                          !.result = env.nextSubmit,
                          !.finalSubmitInfo = PerSubQueueInfo(submitInfo),
                          !.forwarded = <<AppCmdBuffers(submitInfo.cmdBufferCount)>>]
         @@ [deque |-> m_gpuTimestampPairDeque, offset |-> m_nextTimestampOffset]
    ELSE LET a == AcquirePair(env)
             \* Immediately push it onto the back of the deque
             push == IF a.pTimestamp # NoPair THEN env.PushBack ELSE a.result
             pTimestamp == IF a.pTimestamp # NoPair /\ push # Success
                           THEN NoPair ELSE a.pTimestamp
             deque == IF pTimestamp # NoPair THEN Append(a.deque, pTimestamp)
                      ELSE a.deque
             sub == IF pTimestamp # NoPair
                    THEN SubmitWithGpuTimestampPair(submitInfo, pTimestamp, env)
                    ELSE [result |-> CollapseResults(env.nextSubmit, push),
                          forwarded |-> <<AppCmdBuffers(submitInfo.cmdBufferCount)>>,
                          finalSubmitInfo |-> PerSubQueueInfo(submitInfo),
                          timelist |-> NoPair]
             obs == [NoSubmit EXCEPT
                       !.op = "Submit", !.submitInfo = submitInfo,
                       !.addTimestamps = TRUE, !.path = a.path,
                       !.writes = a.writes,
                       !.failed = a.failed
                                  \cup (IF a.pTimestamp # NoPair /\ push # Success
                                        THEN {"PushBack"} ELSE {})
                                  \cup (IF pTimestamp # NoPair /\ ~env.autoBuffers
                                        THEN {"AutoBuffer"} ELSE {})]
         IN  IF a.returned = FALSE
             THEN [obs EXCEPT !.returned = FALSE, !.result = NoReturn]
                  @@ [deque |-> a.deque, offset |-> a.offset]
             ELSE [obs EXCEPT
                     !.result = sub.result,
                     !.pushed = pTimestamp,
                     !.destroyed = IF a.pTimestamp # NoPair /\ push # Success
                                   THEN a.pTimestamp ELSE NoPair,
                     !.assertAtPush = IF a.pTimestamp = NoPair THEN "none"
                                      ELSE IF a.result = Success THEN "holds"
                                      ELSE "fails",
                     !.assertAtSubmit = IF pTimestamp = NoPair THEN "none"
                                        ELSE IF push = Success THEN "holds"
                                        ELSE "fails",
                     !.forwarded = sub.forwarded,
                     !.finalSubmitInfo = sub.finalSubmitInfo,
                     !.notified = (pTimestamp = NoPair),
                     !.timelist = sub.timelist]
                  @@ [deque |-> deque, offset |-> a.offset]

\* The outcomes the environment can choose for the steps this Submit makes.
\* An outcome is chosen only for a step that is reached: nullDeref when PAL_NEW
\* fails, AssociateFence when the next layer's Submit succeeds.
SubmitEnvs(submitInfo) ==
    IF AddTimestamps(submitInfo) = FALSE
    THEN {[NoSubmitFaults EXCEPT !.nextSubmit = n] : n \in {Success, ErrorDeviceLost}}
    ELSE {[NoSubmitFaults EXCEPT !.ResetFences = rf, !.create = c[1], !.nullDeref = c[2],
                                 !.PushBack = pb, !.autoBuffers = ab,
                                 !.nextSubmit = n[1], !.AssociateFence = n[2]] :
            rf \in IF CanReuse THEN {Success, ErrorDeviceLost} ELSE {Success},
            c  \in IF ~CanReuse /\ CanCreate
                   THEN {<<CreateSteps[i], "returns">> : i \in DOMAIN CreateSteps}
                        \cup {<<"new", "crashes">>}
                   ELSE {<<"none", "returns">>},
            pb \in IF CanReuse \/ CanCreate THEN {Success, ErrorOutOfMemory} ELSE {Success},
            ab \in IF CanReuse \/ CanCreate THEN BOOLEAN ELSE {TRUE},
            n  \in {<<Success, Success>>, <<Success, ErrorUnknown>>,
                    <<ErrorDeviceLost, Success>>}}

\* The process is running: no Submit has crashed.
Running == lastSubmit.returned

\* The queue has not been destroyed.
Constructed == lastSubmit.op # "~Queue"

CallSubmit(submitInfo, env) ==
    \E r \in {Submit(submitInfo, env)} :
        /\ Running /\ Constructed
        /\ lastSubmit' = [f \in DOMAIN NoSubmit |-> r[f]]
        /\ m_gpuTimestampPairDeque' = r.deque
        /\ m_nextTimestampOffset' = r.offset
        /\ pairs' = [p \in PairIds |->
                       IF p = r.destroyed
                       THEN [state |-> "destroyed", numActiveSubmissions |-> 0]
                       ELSE IF p = r.pushed /\ pairs[p].state = "free"
                       THEN [state |-> "live",
                             numActiveSubmissions |-> IF r.timelist = p THEN 1 ELSE 0]
                       ELSE IF p = r.timelist
                       THEN [pairs[p] EXCEPT !.numActiveSubmissions = @ + 1]
                       ELSE pairs[p]]
        /\ UNCHANGED m_supportTimestamps
        /\ UNCHANGED <<cacheVars, archiveVars>>

\* The GPU finishes the submissions that use a pair: the FPS manager sets the
\* pair's numActiveSubmissions back to 0.
SubmissionsDone(p) ==
    /\ Running /\ Constructed
    /\ pairs[p].state = "live" /\ pairs[p].numActiveSubmissions > 0
    /\ pairs' = [pairs EXCEPT ![p].numActiveSubmissions = 0]
    /\ lastSubmit' = [NoSubmit EXCEPT !.op = "SubmissionsDone"]
    /\ UNCHANGED <<m_supportTimestamps, m_nextTimestampOffset, m_gpuTimestampPairDeque>>
    /\ UNCHANGED <<cacheVars, archiveVars>>

\* The pairs in the deque.
Enqueued == {m_gpuTimestampPairDeque[i] : i \in DOMAIN m_gpuTimestampPairDeque}

\* Queue::~Queue(): every pair of the deque is popped and destroyed.
QueueDestructor ==
    /\ Running /\ Constructed
    /\ m_gpuTimestampPairDeque' = <<>>
    /\ pairs' = [p \in PairIds |->
                   IF p \in Enqueued
                   THEN [state |-> "destroyed", numActiveSubmissions |-> 0]
                   ELSE pairs[p]]
    /\ lastSubmit' = [NoSubmit EXCEPT !.op = "~Queue"]
    /\ UNCHANGED <<m_supportTimestamps, m_nextTimestampOffset>>
    /\ UNCHANGED <<cacheVars, archiveVars>>

QueueNext ==
    \/ \E submitInfo \in SubmitInfos : \E env \in SubmitEnvs(submitInfo) :
          CallSubmit(submitInfo, env)
    \/ \E p \in PairIds : SubmissionsDone(p)
    \/ QueueDestructor

QueueSpecInit == CacheInit /\ ArchiveInit /\ QueueInit

QueueSpec == QueueSpecInit /\ [][QueueNext]_vars

\* ---- C19
\* C19: every call of Submit hands the submission to the next layer's Submit
\* exactly once, on every path, also when an allocation fails.
C19_SubmitForwardsOnce ==
    lastSubmit.op = "Submit" => Len(lastSubmit.forwarded) = 1

\* ---- C20
\* C20: the two assertions of Submit hold on every path: where the pair is
\* pushed onto the deque and where it is submitted, a pair pointer that is not
\* null comes with the result Success.
C20_AssertionsHold ==
    lastSubmit.op = "Submit" =>
        /\ lastSubmit.assertAtPush # "fails"
        /\ lastSubmit.assertAtSubmit # "fails"

\* ---- C21
\* The pairs that exist (created and not destroyed) are the pairs of the
\* deque, each in it once.
PairsOwnedOnce ==
    /\ \A p \in PairIds : pairs[p].state = "live" <=> p \in Enqueued
    /\ \A i, j \in DOMAIN m_gpuTimestampPairDeque :
          m_gpuTimestampPairDeque[i] = m_gpuTimestampPairDeque[j] => i = j

\* A Submit that reuses a pair takes the front of the deque, whose
\* numActiveSubmissions is 0; a Submit that issues a pair's command buffers has
\* the pair at the back of the deque.
ReuseFromFront ==
    lastSubmit'.op = "Submit" =>
        /\ lastSubmit'.path = "reuse" =>
              /\ Len(m_gpuTimestampPairDeque) > 0
              /\ pairs[Head(m_gpuTimestampPairDeque)].numActiveSubmissions = 0
              /\ m_gpuTimestampPairDeque' \in
                    {Tail(m_gpuTimestampPairDeque),
                     Append(Tail(m_gpuTimestampPairDeque),
                            Head(m_gpuTimestampPairDeque))}
              /\ lastSubmit'.pushed \in {NoPair, Head(m_gpuTimestampPairDeque)}
        /\ lastSubmit'.path # "reuse" =>
              \/ m_gpuTimestampPairDeque' = m_gpuTimestampPairDeque
              \/ /\ lastSubmit'.path = "create"
                 /\ lastSubmit'.pushed \in PairIds
                 /\ pairs[lastSubmit'.pushed].state = "free"
                 /\ m_gpuTimestampPairDeque' =
                       Append(m_gpuTimestampPairDeque, lastSubmit'.pushed)
        /\ \A i \in DOMAIN lastSubmit'.forwarded :
              \A j \in DOMAIN lastSubmit'.forwarded[i] :
                 lastSubmit'.forwarded[i][j].kind # "app" =>
                    /\ Len(m_gpuTimestampPairDeque') > 0
                    /\ lastSubmit'.forwarded[i][j].id =
                          m_gpuTimestampPairDeque'[Len(m_gpuTimestampPairDeque')]
                    /\ lastSubmit'.forwarded[i][j].id = lastSubmit'.pushed

\* C21: after any sequence of Submit calls every pair that exists is in the
\* deque exactly once; a pair is reused only from the front of the deque and
\* only when its numActiveSubmissions is 0, and is at the back of the deque when
\* the submission is issued; the destructor leaves no pair.
C21_PairOwnership == []PairsOwnedOnce /\ [][ReuseFromFront]_vars

C21_Witness ==
    /\ lastSubmit.op = "Submit" /\ lastSubmit.path = "reuse"
    /\ lastSubmit.pushed = 1
    /\ m_gpuTimestampPairDeque = <<2, 1>>
    /\ Len(lastSubmit.forwarded) = 1

\* ---- C22
\* C22: after any sequence of Submit calls, also with calls in which
\* CreateGpuTimestampPair fails part-way, m_nextTimestampOffset is at most
\* m_timestampMemorySize and every offset handed to CmdWriteTimestamp is
\* strictly less than m_timestampMemorySize.
C22_OffsetsWithinMemory ==
    /\ m_nextTimestampOffset <= m_timestampMemorySize
    /\ \A i \in DOMAIN lastSubmit.writes :
          lastSubmit.writes[i] < m_timestampMemorySize

\* ---- C23
\* The submission handed to the next layer holds a command buffer of a pair.
HasTimestampCmdBuffers(forwarded) ==
    \E i \in DOMAIN forwarded : \E j \in DOMAIN forwarded[i] :
        forwarded[i][j].kind # "app"

\* C23: Submit adds timestamp command buffers only when the engine supports
\* timestamps, the submission has at least one command buffer and the last one
\* contains no present; in every other case the submission is forwarded as it
\* is, no pair is popped, created or pushed, and the FPS manager is not told of
\* a submit without timestamp.
C23_TimestampsOnlyWhenWanted ==
    [][lastSubmit'.op = "Submit" =>
         LET submitInfo == lastSubmit'.submitInfo
             wanted == /\ m_supportTimestamps
                       /\ submitInfo.hasSubQueue
                       /\ submitInfo.cmdBufferCount > 0
                       /\ ~submitInfo.lastContainsPresent
         IN  /\ HasTimestampCmdBuffers(lastSubmit'.forwarded) => wanted
             /\ ~wanted =>
                   /\ lastSubmit'.forwarded =
                         <<AppCmdBuffers(submitInfo.cmdBufferCount)>>
                   /\ m_gpuTimestampPairDeque' = m_gpuTimestampPairDeque
                   /\ pairs' = pairs
                   /\ m_nextTimestampOffset' = m_nextTimestampOffset
                   /\ lastSubmit'.pushed = NoPair
                   /\ lastSubmit'.writes = <<>>
                   /\ ~lastSubmit'.notified]_vars

\* A submission whose last command buffer contains a present, on a queue that
\* supports timestamps and has a pair ready for reuse, went out as it was.
C23_Witness ==
    /\ lastSubmit.op = "Submit"
    /\ m_supportTimestamps
    /\ lastSubmit.submitInfo.cmdBufferCount = 2
    /\ lastSubmit.submitInfo.lastContainsPresent
    /\ lastSubmit.forwarded = <<AppCmdBuffers(2)>>
    /\ CanReuse

\* ---- C24
\* C24: when SubmitWithGpuTimestampPair forwards a submission with n command
\* buffers on the primary sub-queue, the primary list that goes out has n + 2
\* entries: the pair's begin command buffer, the n command buffers in their
\* order, the pair's end command buffer; the other sub-queues go out unchanged
\* and the command-buffer-info list is absent if it was absent in the input.
C24_ForwardedList ==
    (lastSubmit.op = "Submit" /\ lastSubmit.pushed # NoPair
        /\ lastSubmit.finalSubmitInfo # NoPerSubQueueInfo) =>
        LET submitInfo == PerSubQueueInfo(lastSubmit.submitInfo)
            final      == lastSubmit.finalSubmitInfo
            n          == lastSubmit.submitInfo.cmdBufferCount
        IN  /\ Len(final) = Len(submitInfo)
            /\ Len(final[1].ppCmdBuffers) = n + 2
            /\ final[1].ppCmdBuffers[1] = pBeginCmdBuffer(lastSubmit.pushed)
            /\ \A i \in 1..n :
                  final[1].ppCmdBuffers[i + 1] = submitInfo[1].ppCmdBuffers[i]
            /\ final[1].ppCmdBuffers[n + 2] = pEndCmdBuffer(lastSubmit.pushed)
            /\ \A q \in 2..Len(submitInfo) : final[q] = submitInfo[q]
            /\ submitInfo[1].pCmdBufInfoList.isNull =>
                  final[1].pCmdBufInfoList.isNull

\* Two command buffers, a second sub-queue and no info list went out with the
\* command buffers of pair 1 around them.
C24_Witness ==
    /\ lastSubmit.op = "Submit" /\ lastSubmit.pushed = 1
    /\ lastSubmit.submitInfo.cmdBufferCount = 2
    /\ lastSubmit.submitInfo.perSubQueueInfoCount = 2
    /\ ~lastSubmit.submitInfo.hasCmdBufInfoList
    /\ Len(lastSubmit.finalSubmitInfo) = 2
    /\ Len(lastSubmit.finalSubmitInfo[1].ppCmdBuffers) = 4

\* ---- C25
\* No load policy contains BatchStore and no store policy contains LoadOnQuery.
PoliciesValid ==
    \A l \in Layers : /\ BatchStore \notin m_loadPolicy[l]
                      /\ LoadOnQuery \notin m_storePolicy[l]

\* C25: in every state of the layers, from construction through any sequence
\* of SetLoadPolicy, SetStorePolicy, Link, Query, Store and Load calls, accepted
\* or rejected, no load policy contains BatchStore and no store policy contains
\* LoadOnQuery; Link, Query, Store and Load leave both policies as they are.
C25_PoliciesStayValid ==
    /\ []PoliciesValid
    /\ [][last'.op \in {"Link", "Query", "Store", "Load"} =>
             /\ m_loadPolicy' = m_loadPolicy
             /\ m_storePolicy' = m_storePolicy]_vars

\* A store policy was set on layer 1, and a Store through the chain came after.
C25_Witness ==
    /\ m_storePolicy[1] = {BatchStore, PassData, PassCalls}
    /\ m_pNextLayer[1] = 2
    /\ last.op = "Store" /\ last.layer = 1 /\ last.result = Success
    /\ PoliciesValid

\* ---- C26
\* The chain that starts at `this` ends: no layer is reached twice.
RECURSIVE NoCycle(_, _)
NoCycle(this, seen) ==
    IF this = NULL THEN TRUE
    ELSE IF this \in seen THEN FALSE
    ELSE NoCycle(m_pNextLayer[this], seen \cup {this})

\* The layers of the chain that starts at `this`, in chain order.
RECURSIVE ChainOrder(_, _)
ChainOrder(this, order) ==
    IF (this = NULL) \/ (\E i \in DOMAIN order : order[i] = this) THEN order
    ELSE ChainOrder(m_pNextLayer[this], Append(order, this))

\* The nested calls f of the last call, in the order made.
IsCall(e, f) == e.f = f
Visits(f) == SelectSeq(last.trace, LAMBDA e : IsCall(e, f))

\* The layers of `visits` are layers of `order`, each once, in the order of
\* `order`.
InChainOrder(visits, order) ==
    /\ \A i \in DOMAIN visits : \E k \in DOMAIN order : order[k] = visits[i].l
    /\ \A i, j \in DOMAIN visits :
          i < j => \E k, m \in DOMAIN order :
                      /\ k < m /\ order[k] = visits[i].l /\ order[m] = visits[j].l

\* C26: on a chain built by Link that has no cycle, every Query and every
\* Store of a caller returns, runs QueryInternal (StoreInternal) of each layer
\* at most once and goes through the layers in chain order from the head.
C26_ChainWalkTerminates ==
    (last.op \in {"Query", "Store"} /\ NoCycle(last.layer, {})) =>
        LET order == ChainOrder(last.layer, <<>>)
        IN  /\ last.result # NoReturn
            /\ InChainOrder(Visits(last.op \o "Internal"), order)
            /\ InChainOrder(Visits(last.op), Tail(order))

\* A Query on the head of a chain of two layers asked both layers, the head
\* first.
C26_Witness ==
    /\ last.op = "Query" /\ last.layer = 1 /\ m_pNextLayer[1] = 2
    /\ NoCycle(1, {})
    /\ Len(Visits("QueryInternal")) = 2
    /\ Visits("QueryInternal")[1].l = 1 /\ Visits("QueryInternal")[2].l = 2

====
